---------------------------- MODULE Spec2Model ----------------------------
(***************************************************************************)
(* TMDB movie list: the trending counter kept in the Appwrite collection   *)
(* (updateSearchCount, getTrendingMovies), the debounced search term and   *)
(* the MovieCard display fallbacks.                                        *)
(***************************************************************************)
EXTENDS Integers, Sequences, FiniteSets, TLC

(***************************************************************************)
(* Bounds of the model.                                                    *)
(***************************************************************************)
\* Number of updateSearchCount invocations that may be in flight or finished.
NumInvocations == 3

\* Identifiers of the invocations.
Invocations == 1 .. NumInvocations

\* The search terms typed by the user.
SearchTerms == {"dune", "batman"}

(***************************************************************************)
(* Values.  A nullable value is <<>> (null / undefined) or <<v>>.          *)
(***************************************************************************)
Null == <<>>

Some(v) == <<v>>

\* type Movie, restricted to the fields the program reads.
MovieRecord(id, title, poster, vote, date, lang) ==
    [id |-> id, title |-> title, poster_path |-> poster,
     vote_average |-> vote, release_date |-> date, original_language |-> lang]

\* The movies a search can match: one with a poster, one without.
Movies ==
    { MovieRecord(438631, "Dune", Some("/d5NXSklXo0qyIYkgV94XAgMIckC.jpg"),
                  Some(780), Some("2021-09-15"), "en"),
      MovieRecord(268, "Batman", Null, Some(0), Null, "en") }

\* Template literal `${v}`: null is rendered as the text "null".
TemplateText(v) == IF v = Null THEN "null" ELSE v[1]

\* `https://image.tmdb.org/t/p/w500${poster_path}`
PosterUrl(poster_path) ==
    "https://image.tmdb.org/t/p/w500" \o TemplateText(poster_path)

(***************************************************************************)
(* The remote collection: a sequence of documents in creation order; a     *)
(* document's $id is its position (ID.unique() never repeats and no        *)
(* document is ever deleted).                                              *)
(***************************************************************************)
RECURSIVE SelectDocs(_, _, _)
SelectDocs(coll, i, term) ==
    IF i > Len(coll) THEN <<>>
    ELSE IF coll[i].searchTerm = term
         THEN <<coll[i]>> \o SelectDocs(coll, i + 1, term)
         ELSE SelectDocs(coll, i + 1, term)

\* databases.listDocuments(..., [Query.equal("searchTerm", searchTerm)])
ListDocumentsEqual(coll, term) == SelectDocs(coll, 1, term)

\* ID.unique()
IdUnique(coll) == Len(coll) + 1

\* UpdateData without the increment: count: doc.count.
UpdateDataNoIncrement(doc, movie) ==
    [count |-> doc.count, lastSearchedMovie |-> Some(movie)]

\* UpdateData with the sign of the increment wrong: count: doc.count - 1.
UpdateDataDecrement(doc, movie) ==
    [count |-> doc.count - 1, lastSearchedMovie |-> Some(movie)]

\* The payload of the updateDocument call.
UpdateData(doc, movie) ==
    [count |-> doc.count + 1, lastSearchedMovie |-> Some(movie)]

\* CreateData starting the counter at 0.
CreateDataZeroCount(searchTerm, movie) ==
    [searchTerm |-> searchTerm,
     count      |-> 0,
     movie_id   |-> movie.id,
     poster_url |-> PosterUrl(movie.poster_path),
     title      |-> movie.title]

\* The payload of the createDocument call.
CreateData(searchTerm, movie) ==
    [searchTerm |-> searchTerm,
     count      |-> 1,
     movie_id   |-> movie.id,
     poster_url |-> PosterUrl(movie.poster_path),
     title      |-> movie.title]

\* updateDocument as an atomic increment of the stored count.
UpdateDocumentIncrement(coll, id, data) ==
    [coll EXCEPT ![id].count = @ + 1,
                 ![id].lastSearchedMovie = data.lastSearchedMovie]

\* databases.updateDocument(DATABASE_ID, COLLECTION_ID, id, data)
UpdateDocument(coll, id, data) ==
    [coll EXCEPT ![id].count = data.count,
                 ![id].lastSearchedMovie = data.lastSearchedMovie]

\* createDocument refusing a second document for a search term.
CreateDocumentUnique(coll, id, data) ==
    IF \E d \in DOMAIN coll : coll[d].searchTerm = data.searchTerm
    THEN coll
    ELSE Append(coll, [id                |-> id,
                       searchTerm        |-> data.searchTerm,
                       count             |-> data.count,
                       movie_id          |-> data.movie_id,
                       poster_url        |-> data.poster_url,
                       title             |-> data.title,
                       lastSearchedMovie |-> Null])

\* databases.createDocument(DATABASE_ID, COLLECTION_ID, id, data)
CreateDocument(coll, id, data) ==
    Append(coll, [id                |-> id,
                  searchTerm        |-> data.searchTerm,
                  count             |-> data.count,
                  movie_id          |-> data.movie_id,
                  poster_url        |-> data.poster_url,
                  title             |-> data.title,
                  lastSearchedMovie |-> Null])

\* The test written as result.documents.length > 1.
ExistsMoreThanOne(documents) == Len(documents) > 1

\* result.documents.length > 0
Exists(documents) == Len(documents) > 0

\* A catch block that logs and rethrows.
CatchRethrow == [status |-> "rejected", value |-> Null]

\* The catch block of updateSearchCount: the error is logged and the
\* promise resolves with undefined.
CatchUpdateSearchCount == [status |-> "resolved", value |-> Null]

\* The normal end of updateSearchCount: no return statement.
ReturnUpdateSearchCount == [status |-> "resolved", value |-> Null]

Pending == [status |-> "pending", value |-> Null]

(***************************************************************************)
(* getTrendingMovies.                                                      *)
(***************************************************************************)
\* A limit of one document more.
TrendingLimitOneMore == 5 + 1

\* Query.limit(5)
TrendingLimit == 5

Max(S) == CHOOSE x \in S : \A y \in S : y <= x

\* [Query.orderDesc("count"), Query.limit(n)] over the documents ids: every
\* answer the service may give, as a sequence of $ids.  The next document
\* is one with the highest count left; the order of documents with equal
\* counts is not fixed by the query.
RECURSIVE OrderDescLimit(_, _, _)
OrderDescLimit(coll, ids, n) ==
    IF ids = {} \/ n = 0 THEN {<<>>}
    ELSE LET top == Max({coll[i].count : i \in ids})
         IN  UNION { { <<i>> \o rest : rest \in OrderDescLimit(coll, ids \ {i}, n - 1) }
                     : i \in {j \in ids : coll[j].count = top} }

\* The answers listDocuments may give to [orderDesc("count"), limit(5)].
ListDocumentsTrending(coll) == OrderDescLimit(coll, DOMAIN coll, TrendingLimit)

\* result.documents of an answer.
Documents(coll, answer) == [k \in DOMAIN answer |-> coll[answer[k]]]

\* The mapping of a document to the TrendingMovies type.
ToTrendingMovie(doc) ==
    [id         |-> doc.movie_id,
     count      |-> doc.count,
     poster_url |-> doc.poster_url,
     searchTerm |-> doc.searchTerm,
     title      |-> doc.title]

\* result.documents.map(...)
MapTrending(documents) ==
    [k \in DOMAIN documents |-> ToTrendingMovie(documents[k])]

\* The lists a successful getTrendingMovies may return.
GetTrendingMoviesReturns(coll) ==
    { MapTrending(Documents(coll, answer)) : answer \in ListDocumentsTrending(coll) }

\* The catch block of getTrendingMovies: return [].
CatchGetTrendingMovies == [status |-> "resolved", value |-> <<>>]

(***************************************************************************)
(* The debounced search term (App: useState + useDebounce).                *)
(***************************************************************************)
\* A delay of half a second.
DebounceDelayShort == 1500 - 1000

\* 1500, // 1.5 second delay
DebounceDelay == 1500

\* The callback handed to useDebounce: setDebouncedSearchTerm(searchTerm).
DebounceCallback(currentSearchTerm) == currentSearchTerm

\* useState(""): the first value of searchTerm and of debouncedSearchTerm.
InitialTerm == ""

\* The values the input takes while the user types "dun", one character
\* typed or deleted per keystroke.
Typing == <<"", "d", "du", "dun">>

InputValues == {Typing[k] : k \in DOMAIN Typing}

Position(value) == CHOOSE k \in DOMAIN Typing : Typing[k] = value

OneKeyApart(a, b) == Position(a) - Position(b) \in {-1, 1}

\* The clock advances in steps of TickMs up to MaxTimeMs.
TickMs == 500

MaxTimeMs == 4000

\* useDebounce on a change of [searchTerm]: the pending timeout is cleared
\* and a new one is set, due after the delay.
ResetTimer(time) == Some(time + DebounceDelay)

(***************************************************************************)
(* MovieCard.                                                              *)
(***************************************************************************)
\* vote_average is modelled in hundredths, 0 .. MaxVote (0.00 .. 10.00).
MaxVote == 1000

Digits == <<"0", "1", "2", "3", "4", "5", "6", "7", "8", "9">>

RECURSIVE NatText(_)
NatText(n) == IF n < 10 THEN Digits[n + 1]
              ELSE NatText(n \div 10) \o Digits[(n % 10) + 1]

\* The text of n tenths: "7.8" for 78.
TenthsText(n) == NatText(n \div 10) \o "." \o Digits[(n % 10) + 1]

RECURSIVE PowMod(_, _)
\* 2^k modulo 100
PowMod(k, acc) == IF k = 0 THEN acc ELSE PowMod(k - 1, (2 * acc) % 100)

RECURSIVE BinaryExponent(_, _)
\* The e with 2^e <= v/100 < 2^(e+1), for v >= 1 (e is -7 .. 3 for v < 1600).
BinaryExponent(v, e) ==
    IF e >= 0
    THEN IF v >= 2 * 100 THEN BinaryExponent(v \div 2, e + 1) ELSE e
    ELSE e

RECURSIVE NegativeExponent(_, _)
NegativeExponent(v, e) ==
    IF v >= 100 THEN e ELSE NegativeExponent(2 * v, e - 1)

ExponentOf(v) == IF v >= 100 THEN BinaryExponent(v, 0) ELSE NegativeExponent(v, 0)

\* How the IEEE-754 double nearest to v/100 compares with v/100:
\* -1 below, 0 equal, 1 above.  The double is round(v/100 * 2^k) / 2^k with
\* k = 52 - e; the remainder of v * 2^k modulo 100 tells the direction.
DoubleError(v) ==
    LET k   == 52 - ExponentOf(v)
        rem == ((v % 100) * PowMod(k, 1)) % 100
    IN  IF rem = 0 THEN 0 ELSE IF rem < 50 THEN -1 ELSE 1

\* Number.prototype.toFixed(1) of the double nearest to v/100: the n with
\* n/10 closest to the double, the larger n on a tie.
ToFixed1(v) ==
    LET q == v \div 10
        r == v % 10
        n == IF r < 5 THEN q
             ELSE IF r > 5 THEN q + 1
             ELSE IF DoubleError(v) < 0 THEN q ELSE q + 1
    IN  TenthsText(n)

\* A string as the sequence of its characters.
DateChars == <<"2", "0", "2", "1", "-", "0", "5", "-", "0", "4">>

RECURSIVE Concat(_)
Concat(chars) == IF chars = <<>> THEN "" ELSE chars[1] \o Concat(Tail(chars))

RECURSIVE FirstField(_, _)
\* s.split(sep)[0]: the characters before the first separator.
FirstField(chars, sep) ==
    IF chars = <<>> \/ chars[1] = sep THEN <<>>
    ELSE <<chars[1]>> \o FirstField(Tail(chars), sep)

\* The test written as vote_average != null.
TruthyNumberNullOnly(v) == v # Null

\* JavaScript truthiness of a nullable number in hundredths / a nullable text.
TruthyNumber(v) == v # Null /\ v[1] # 0

TruthyChars(v) == v # Null /\ v[1] # <<>>

\* {vote_average ? vote_average.toFixed(1) : "N/A"}
RatingText(vote_average) ==
    IF TruthyNumber(vote_average) THEN ToFixed1(vote_average[1]) ELSE "N/A"

\* poster_path ? `https://image.tmdb.org/t/p/w500${poster_path}` : "/no-movie.png"
PosterSrc(poster_path) ==
    IF poster_path # Null /\ poster_path[1] # ""
    THEN PosterUrl(poster_path) ELSE "/no-movie.png"

\* {release_date ? release_date.split("-")[0] : "N/A"}
YearText(release_date) ==
    IF TruthyChars(release_date) THEN Concat(FirstField(release_date[1], "-"))
    ELSE "N/A"

\* What MovieCard renders for a movie.
MovieCard(m) ==
    [src    |-> PosterSrc(m.poster_path),
     alt    |-> m.title,
     title  |-> m.title,
     rating |-> RatingText(m.vote_average),
     lang   |-> m.original_language,
     year   |-> YearText(m.release_date)]

\* The movie records handed to MovieCard.
CardMovies ==
    { MovieRecord(1, "Dune", p, v, d, "en") :
        p \in {Null, Some("/d5NXSklXo0qyIYkgV94XAgMIckC.jpg")},
        v \in {Null} \cup {Some(x) : x \in 0 .. MaxVote},
        d \in {Null, Some(<<>>), Some(DateChars)} }

(***************************************************************************)
(* State.                                                                  *)
(***************************************************************************)
VARIABLES
    docs,       \* the collection
    pc,         \* pc[i]: where invocation i of updateSearchCount stands
    args,       \* args[i]: its arguments (searchTerm, movie)
    result,     \* result[i]: result.documents of its listDocuments call
    calls,      \* calls[i]: the remote calls it has issued, in order
    outcome,    \* outcome[i]: the state of the promise it returned
    logged,     \* logged[i]: the remote call whose error its catch block logged
    trending,   \* the promise of the last getTrendingMovies call
    searchTerm,             \* the value of the search input
    debouncedSearchTerm,    \* the term the query is made for
    now,                    \* the clock, in ms
    timer,                  \* the pending timeout: Null or Some(due time)
    lastChange,             \* the time searchTerm last changed (or the mount)
    movie,      \* the props of the MovieCard
    card        \* what the MovieCard rendered

upsertVars == <<pc, args, result, calls, outcome, logged>>

debounceVars == <<searchTerm, debouncedSearchTerm, now, timer, lastChange>>

cardVars == <<movie, card>>

vars == <<docs, upsertVars, trending, debounceVars, cardVars>>

NoArgs == [searchTerm |-> "", movie |-> Null]

NoTrending == [status |-> "none", value |-> <<>>, failed |-> FALSE]

NoCard == [src |-> "", alt |-> "", title |-> "", rating |-> "", lang |-> "",
           year |-> ""]

\* The collection is empty when the first search is recorded.
EmptyCollection == <<>>

\* The movie a search for a term matched.
MatchFor(term) ==
    CHOOSE m \in Movies : (term = "dune") <=> (m.title = "Dune")

\* A stored document: created with count 1, updated count - 1 times.
StoredDoc(id, term, count) ==
    LET created == CreateDocument(<<>>, id, CreateData(term, MatchFor(term)))[1]
    IN  IF count = 1 THEN created
        ELSE [created EXCEPT !.count = count,
                             !.lastSearchedMovie = Some(MatchFor(term))]

\* The collections the program may find when it starts: nothing yet, or the
\* one document earlier sessions created and possibly updated.
InitialCollections ==
    { EmptyCollection,
      <<StoredDoc(IdUnique(EmptyCollection), "dune", 1)>>,
      <<StoredDoc(IdUnique(EmptyCollection), "dune", 2)>> }

InitInvocations ==
    /\ pc = [i \in Invocations |-> "idle"]
    /\ args = [i \in Invocations |-> NoArgs]
    /\ result = [i \in Invocations |-> <<>>]
    /\ calls = [i \in Invocations |-> <<>>]
    /\ outcome = [i \in Invocations |-> [status |-> "none", value |-> Null]]
    /\ logged = [i \in Invocations |-> "none"]
    /\ trending = NoTrending

\* The component after its first render: the effect has set the first timeout.
InitDebounce ==
    /\ searchTerm = InitialTerm
    /\ debouncedSearchTerm = InitialTerm
    /\ now = 0
    /\ timer = ResetTimer(0)
    /\ lastChange = 0

InitCard ==
    /\ movie = CHOOSE m \in CardMovies : m.vote_average = Null
    /\ card = NoCard

(***************************************************************************)
(* updateSearchCount(searchTerm, movie), one action per step.              *)
(***************************************************************************)
\* The call: runs up to the first await, issuing listDocuments.
Invoke(i, term, m) ==
    /\ pc[i] = "idle"
    /\ pc' = [pc EXCEPT ![i] = "list"]
    /\ args' = [args EXCEPT ![i] = [searchTerm |-> term, movie |-> Some(m)]]
    /\ calls' = [calls EXCEPT ![i] = Append(@, "listDocuments")]
    /\ outcome' = [outcome EXCEPT ![i] = Pending]
    /\ UNCHANGED <<docs, result, logged, trending, debounceVars, cardVars>>

\* listDocuments answers; the branch is taken and the write is issued.
ListDocumentsOk(i) ==
    /\ pc[i] = "list"
    /\ LET documents == ListDocumentsEqual(docs, args[i].searchTerm)
       IN  /\ result' = [result EXCEPT ![i] = documents]
           /\ IF Exists(documents)
              THEN /\ pc' = [pc EXCEPT ![i] = "update"]
                   /\ calls' = [calls EXCEPT ![i] = Append(@, "updateDocument")]
              ELSE /\ pc' = [pc EXCEPT ![i] = "create"]
                   /\ calls' = [calls EXCEPT ![i] = Append(@, "createDocument")]
    /\ UNCHANGED <<docs, args, outcome, logged, trending, debounceVars, cardVars>>

\* A remote call of invocation i rejects: the catch block logs the error.
Caught(i, call) ==
    /\ pc' = [pc EXCEPT ![i] = "done"]
    /\ outcome' = [outcome EXCEPT ![i] = CatchUpdateSearchCount]
    /\ logged' = [logged EXCEPT ![i] = call]
    /\ UNCHANGED <<args, result, calls, trending, debounceVars, cardVars>>

ListDocumentsFail(i) ==
    /\ pc[i] = "list"
    /\ docs' = docs
    /\ Caught(i, "listDocuments")

\* updateDocument lands: count is set to the count read plus one.
UpdateDocumentOk(i) ==
    /\ pc[i] = "update"
    /\ LET doc == result[i][1]
       IN  docs' = UpdateDocument(docs, doc.id, UpdateData(doc, args[i].movie[1]))
    /\ pc' = [pc EXCEPT ![i] = "done"]
    /\ outcome' = [outcome EXCEPT ![i] = ReturnUpdateSearchCount]
    /\ UNCHANGED <<args, result, calls, logged, trending, debounceVars, cardVars>>

\* updateDocument rejects: the service refused the write, or the write
\* landed and its answer was lost.
UpdateDocumentFail(i) ==
    /\ pc[i] = "update"
    /\ LET doc == result[i][1]
       IN  docs' \in {docs, UpdateDocument(docs, doc.id, UpdateData(doc, args[i].movie[1]))}
    /\ Caught(i, "updateDocument")

\* createDocument lands: a new document with count 1.
CreateDocumentOk(i) ==
    /\ pc[i] = "create"
    /\ docs' = CreateDocument(docs, IdUnique(docs),
                              CreateData(args[i].searchTerm, args[i].movie[1]))
    /\ pc' = [pc EXCEPT ![i] = "done"]
    /\ outcome' = [outcome EXCEPT ![i] = ReturnUpdateSearchCount]
    /\ UNCHANGED <<args, result, calls, logged, trending, debounceVars, cardVars>>

\* createDocument rejects: the service refused the write, or the write
\* landed and its answer was lost.
CreateDocumentFail(i) ==
    /\ pc[i] = "create"
    /\ docs' \in {docs, CreateDocument(docs, IdUnique(docs),
                                       CreateData(args[i].searchTerm, args[i].movie[1]))}
    /\ Caught(i, "createDocument")

(***************************************************************************)
(* getTrendingMovies(): one remote call, then the mapping.                 *)
(***************************************************************************)
GetTrendingMoviesOk ==
    /\ \E movies \in GetTrendingMoviesReturns(docs) :
          trending' = [status |-> "resolved", value |-> movies, failed |-> FALSE]
    /\ UNCHANGED <<docs, upsertVars, debounceVars, cardVars>>

GetTrendingMoviesFail ==
    /\ trending' = [status |-> CatchGetTrendingMovies.status,
                    value  |-> CatchGetTrendingMovies.value,
                    failed |-> TRUE]
    /\ UNCHANGED <<docs, upsertVars, debounceVars, cardVars>>

(***************************************************************************)
(* The search input and its debounce.                                      *)
(***************************************************************************)
\* onChange: setSearchTerm(e.target.value); the effect resets the timeout.
KeyStroke(value) ==
    /\ OneKeyApart(value, searchTerm)
    /\ searchTerm' = value
    /\ timer' = ResetTimer(now)
    /\ lastChange' = now
    /\ UNCHANGED <<now, debouncedSearchTerm, docs, upsertVars, trending, cardVars>>

\* Time passes.  A due timeout may fire late, never early.
Tick ==
    /\ now + TickMs <= MaxTimeMs
    /\ now' = now + TickMs
    /\ UNCHANGED <<searchTerm, debouncedSearchTerm, timer, lastChange,
                   docs, upsertVars, trending, cardVars>>

\* The timeout fires: the callback runs.
TimerFire ==
    /\ timer # Null
    /\ now >= timer[1]
    /\ debouncedSearchTerm' = DebounceCallback(searchTerm)
    /\ timer' = Null
    /\ UNCHANGED <<searchTerm, now, lastChange, docs, upsertVars, trending, cardVars>>

(***************************************************************************)
(* The MovieCard.                                                          *)
(***************************************************************************)
\* The parent renders the card for its movie.
Render ==
    /\ card' = MovieCard(movie)
    /\ UNCHANGED <<movie, docs, upsertVars, trending, debounceVars>>

(***************************************************************************)
(* Spec: any number of overlapping invocations, any remote call may fail.  *)
(* Each search term matches one movie.                                     *)
(***************************************************************************)
Init ==
    /\ docs \in InitialCollections
    /\ InitInvocations
    /\ InitDebounce
    /\ InitCard

Next ==
    \/ \E i \in Invocations, t \in SearchTerms : Invoke(i, t, MatchFor(t))
    \/ \E i \in Invocations : ListDocumentsOk(i)
    \/ \E i \in Invocations : ListDocumentsFail(i)
    \/ \E i \in Invocations : UpdateDocumentOk(i)
    \/ \E i \in Invocations : UpdateDocumentFail(i)
    \/ \E i \in Invocations : CreateDocumentOk(i)
    \/ \E i \in Invocations : CreateDocumentFail(i)

Spec == Init /\ [][Next]_vars

(***************************************************************************)
(* SpecSeq: each invocation completes before the next starts, and no       *)
(* remote call fails; the collection starts empty.                         *)
(***************************************************************************)
NoneInFlight == \A j \in Invocations : pc[j] \in {"idle", "done"}

InitSeq ==
    /\ docs = EmptyCollection
    /\ InitInvocations
    /\ InitDebounce
    /\ InitCard

NextSeq ==
    \/ \E i \in Invocations, t \in SearchTerms, m \in Movies :
          NoneInFlight /\ Invoke(i, t, m)
    \/ \E i \in Invocations : ListDocumentsOk(i)
    \/ \E i \in Invocations : UpdateDocumentOk(i)
    \/ \E i \in Invocations : CreateDocumentOk(i)

SpecSeq == InitSeq /\ [][NextSeq]_vars

(***************************************************************************)
(* SpecFetch: the trending list is fetched while searches are recorded;    *)
(* any remote call may fail.                                               *)
(***************************************************************************)
\* Number of invocations recorded while the list is fetched.
NumFetchInvocations == 2

FetchInvocations == {i \in Invocations : i <= NumFetchInvocations}

NextFetch ==
    \/ \E i \in FetchInvocations, t \in SearchTerms, m \in Movies : Invoke(i, t, m)
    \/ \E i \in FetchInvocations : ListDocumentsOk(i)
    \/ \E i \in FetchInvocations : ListDocumentsFail(i)
    \/ \E i \in FetchInvocations : UpdateDocumentOk(i)
    \/ \E i \in FetchInvocations : UpdateDocumentFail(i)
    \/ \E i \in FetchInvocations : CreateDocumentOk(i)
    \/ \E i \in FetchInvocations : CreateDocumentFail(i)
    \/ GetTrendingMoviesOk
    \/ GetTrendingMoviesFail

SpecFetch == InitSeq /\ [][NextFetch]_vars

(***************************************************************************)
(* SpecTrending: getTrendingMovies on the collections the upsert can       *)
(* leave behind, more than five documents included.                        *)
(***************************************************************************)
\* The most documents in a stored collection, and the highest count.
MaxDocs == 6

MaxCount == 2

\* updateDocument only ever reaches the first document of a term, so a later
\* duplicate keeps count 1.
StoredShape(f) ==
    \A k \in DOMAIN f :
        f[k][2] > 1 => \A j \in 1 .. (k - 1) : f[j][1] # f[k][1]

StoredCollections ==
    UNION { { [k \in 1 .. n |-> StoredDoc(k, f[k][1], f[k][2])] :
                f \in { g \in [1 .. n -> SearchTerms \X (1 .. MaxCount)] :
                          StoredShape(g) } }
            : n \in 0 .. MaxDocs }

InitTrending ==
    /\ docs \in StoredCollections
    /\ InitInvocations
    /\ InitDebounce
    /\ InitCard

NextTrending ==
    \/ GetTrendingMoviesOk
    \/ GetTrendingMoviesFail

SpecTrending == InitTrending /\ [][NextTrending]_vars

(***************************************************************************)
(* SpecDebounce: keystrokes, time and the timeout.                         *)
(***************************************************************************)
NextDebounce ==
    \/ \E value \in InputValues : KeyStroke(value)
    \/ Tick
    \/ TimerFire

SpecDebounce == InitSeq /\ [][NextDebounce]_vars

(***************************************************************************)
(* SpecCard: the card rendered for every movie record.                     *)
(***************************************************************************)
InitCardAny ==
    /\ docs = EmptyCollection
    /\ InitInvocations
    /\ InitDebounce
    /\ movie \in CardMovies
    /\ card = NoCard

NextCard == Render

SpecCard == InitCardAny /\ [][NextCard]_vars

(***************************************************************************)
(* Properties.                                                             *)
(***************************************************************************)
\* The $ids of the documents of a collection that hold a search term.
DocsFor(coll, term) == {d \in DOMAIN coll : coll[d].searchTerm = term}

Range(f) == {f[k] : k \in DOMAIN f}

\* Invocation i completes in this step.
Completes(i) == pc[i] # "done" /\ pc'[i] = "done"

\* Invocation i has completed and none of its remote calls failed.
Succeeded(i) == pc[i] = "done" /\ logged[i] = "none"

\* Every document of coll is in coll2, unchanged.
Kept(coll, coll2) ==
    \A d \in DOMAIN coll : d \in DOMAIN coll2 /\ coll2[d] = coll[d]

\* The steps of an invocation before its write leave the collection alone.
OnlyTheWriteWrites ==
    \A i \in Invocations : pc[i] \in {"idle", "list"} /\ pc'[i] # pc[i] => docs' = docs

\* C1: an invocation that runs alone, with no remote failure, on a
\* collection holding no document for its search term leaves exactly one
\* document for the term, with count 1, and creates or changes no other.
C1_CreatesOne ==
    [][ /\ OnlyTheWriteWrites
        /\ \A i \in Invocations :
              Completes(i) /\ DocsFor(docs, args[i].searchTerm) = {} =>
                 /\ Cardinality(DocsFor(docs', args[i].searchTerm)) = 1
                 /\ \A d \in DocsFor(docs', args[i].searchTerm) : docs'[d].count = 1
                 /\ Kept(docs, docs')
                 /\ Len(docs') = Len(docs) + 1 ]_vars

\* A document was created for a term while another term already had one.
C1_Witness ==
    \E i \in Invocations :
        /\ Succeeded(i)
        /\ result[i] = <<>>
        /\ DocsFor(docs, args[i].searchTerm) # {}
        /\ \E d \in DOMAIN docs :
              docs[d].searchTerm # args[i].searchTerm /\ d < Max(DocsFor(docs, args[i].searchTerm))

\* C2: an invocation that runs alone, with no remote failure, on a
\* collection holding exactly one document for its search term, with count
\* c, leaves that document with count c + 1 and still the only one for the
\* term; createDocument is not called.
C2_IncrementsOne ==
    [][ /\ OnlyTheWriteWrites
        /\ \A i \in Invocations :
              Completes(i) /\ Cardinality(DocsFor(docs, args[i].searchTerm)) = 1 =>
                 /\ DocsFor(docs', args[i].searchTerm) = DocsFor(docs, args[i].searchTerm)
                 /\ \A d \in DocsFor(docs, args[i].searchTerm) :
                       docs'[d].count = docs[d].count + 1
                 /\ Len(docs') = Len(docs)
                 /\ "createDocument" \notin Range(calls'[i]) ]_vars

\* An invocation raised the count of the one document of its term from 2 to 3.
C2_Witness ==
    \E i \in Invocations :
        /\ Succeeded(i)
        /\ Len(result[i]) = 1
        /\ result[i][1].count = 2
        /\ docs[result[i][1].id].count = 3
        /\ DocsFor(docs, args[i].searchTerm) = {result[i][1].id}

\* The invocations made with a term that have completed.
CompletedWith(term) ==
    {i \in Invocations : pc[i] = "done" /\ args[i].searchTerm = term}

\* C9: with invocations that never overlap and no remote failure, from the
\* empty collection, every term has at most one document and its count is
\* the number of completed invocations made with the term.
C9_OnePerTermCounted ==
    \A term \in SearchTerms :
        /\ Cardinality(DocsFor(docs, term)) <= 1
        /\ IF CompletedWith(term) = {}
           THEN DocsFor(docs, term) = {}
           ELSE \E d \in DocsFor(docs, term) :
                    docs[d].count = Cardinality(CompletedWith(term))

\* Two terms have a document each, one of them searched twice or more.
C9_Witness ==
    /\ Len(docs) = 2
    /\ \E d \in DOMAIN docs : docs[d].count >= 2
    /\ NoneInFlight

\* Invocations p and q are the only ones made with their common term.
OnlyTwoFor(p, q) ==
    /\ p # q
    /\ args[p].searchTerm = args[q].searchTerm
    /\ \A r \in Invocations \ {p, q} :
          pc[r] = "idle" \/ args[r].searchTerm # args[p].searchTerm

\* Both lookups of p and q came back empty and both creates landed.
BothCreated(p, q) ==
    /\ OnlyTwoFor(p, q)
    /\ Succeeded(p) /\ Succeeded(q)
    /\ result[p] = <<>> /\ result[q] = <<>>

\* C3: when two invocations for the same new term both look up before
\* either createDocument lands, the collection ends with two documents for
\* the term, each with count 1.
C3_DuplicateDocuments ==
    \A p, q \in Invocations :
        BothCreated(p, q) =>
            /\ Cardinality(DocsFor(docs, args[p].searchTerm)) = 2
            /\ \A d \in DocsFor(docs, args[p].searchTerm) : docs[d].count = 1

\* The race has happened.
C3_Witness == \E p, q \in Invocations : BothCreated(p, q)

\* Both lookups of p and q read the one document of the term with the same
\* count, and both updates landed.
BothUpdatedFromSameRead(p, q) ==
    /\ OnlyTwoFor(p, q)
    /\ Succeeded(p) /\ Succeeded(q)
    /\ Len(result[p]) = 1 /\ Len(result[q]) = 1
    /\ result[p][1].id = result[q][1].id
    /\ result[p][1].count = result[q][1].count

\* C4: when two invocations for the same term both read the one document,
\* with count c, before either updateDocument lands, both complete without
\* error and the document ends with count c + 1: one increment is lost.
C4_LostUpdate ==
    \A p, q \in Invocations :
        BothUpdatedFromSameRead(p, q) =>
            /\ docs[result[p][1].id].count = result[p][1].count + 1
            /\ DocsFor(docs, args[p].searchTerm) = {result[p][1].id}
            /\ outcome[p] = ReturnUpdateSearchCount
            /\ outcome[q] = ReturnUpdateSearchCount

\* The lost update has happened on a document that had count 2.
C4_Witness ==
    \E p, q \in Invocations :
        BothUpdatedFromSameRead(p, q) /\ result[p][1].count = 2

\* Every document's count is at least 1.
CountsPositive == \A d \in DOMAIN docs : docs[d].count >= 1

\* C10 as stated: every count is at least 1 and no step lowers a count.
C10_NeverDecreases ==
    /\ []CountsPositive
    /\ [][\A d \in DOMAIN docs : docs'[d].count >= docs[d].count]_vars

\* C10 amended: every count is at least 1; a step lowers a count only when
\* it is an updateDocument writing a stale count + 1 after other invocations
\* raised the count by two or more since that invocation's lookup, and the
\* count then becomes the count read plus 1.
C10_DecreasesOnlyByStaleWrite ==
    /\ []CountsPositive
    /\ [][\A d \in DOMAIN docs :
             docs'[d].count < docs[d].count =>
                \E i \in Invocations :
                    /\ pc[i] = "update" /\ pc'[i] = "done"
                    /\ result[i][1].id = d
                    /\ docs'[d].count = result[i][1].count + 1
                    /\ docs[d].count >= result[i][1].count + 2]_vars

\* A stale write has lowered a count: the document's count is no more than
\* the count another completed update read before adding one.
C10_Witness ==
    \E i, j \in Invocations :
        /\ Succeeded(i) /\ Succeeded(j)
        /\ Len(result[i]) > 0 /\ Len(result[j]) > 0
        /\ result[i][1].id = result[j][1].id
        /\ docs[result[i][1].id].count = result[i][1].count + 1
        /\ docs[result[i][1].id].count <= result[j][1].count

\* What the caller of updateSearchCount can observe of invocation i, and
\* what the invocation did after a failed lookup.
NoFailureReachesCaller(i) ==
    /\ outcome[i].status # "rejected"
    /\ pc[i] = "done" => outcome[i] = [status |-> "resolved", value |-> Null]
    /\ pc[i] \in {"list", "update", "create"} => outcome[i].status = "pending"
    /\ logged[i] # "none" => pc[i] = "done"
    /\ logged[i] = "listDocuments" => calls[i] = <<"listDocuments">>

\* getTrendingMovies never rejects, and answers [] when its call failed.
TrendingFailureIsEmptyList ==
    /\ trending.status \in {"none", "resolved"}
    /\ trending.failed => trending.status = "resolved" /\ trending.value = <<>>

\* C5: no failure of a remote call propagates: updateSearchCount always
\* resolves with no value, after a failed lookup it has issued no write and
\* the failing lookup changes nothing in the collection; getTrendingMovies
\* resolves with the empty list when its call fails.
C5_FailuresSwallowed ==
    /\ [](TrendingFailureIsEmptyList /\ \A i \in Invocations : NoFailureReachesCaller(i))
    /\ [][ /\ \A i \in Invocations :
                 logged'[i] = "listDocuments" /\ logged[i] = "none" => docs' = docs
           /\ trending'.failed /\ trending' # trending => docs' = docs ]_vars

\* A lookup failed, a write of another invocation failed too, and a fetch of
\* the trending list failed.
C5_Witness ==
    /\ \E i, j \in Invocations :
          /\ logged[i] = "listDocuments"
          /\ logged[j] \in {"updateDocument", "createDocument"}
    /\ trending.failed

\* The entry e is the display projection of the document d.
Projects(e, d) ==
    /\ e.id = d.movie_id
    /\ e.count = d.count
    /\ e.poster_url = d.poster_url
    /\ e.searchTerm = d.searchTerm
    /\ e.title = d.title

\* What a successful getTrendingMovies returned, against the collection.
TrendingIsTopFive ==
    trending.status = "resolved" /\ ~trending.failed =>
        LET list == trending.value
            n    == Len(list)
        IN  /\ n = (IF Len(docs) < 5 THEN Len(docs) ELSE 5)
            /\ \A k \in 1 .. (n - 1) : list[k].count >= list[k + 1].count
            \* each entry is a document, and no document is returned more
            \* often than it is stored
            /\ \A k \in 1 .. n :
                  Cardinality({j \in 1 .. n : list[j] = list[k]})
                    <= Cardinality({d \in DOMAIN docs : Projects(list[k], docs[d])})
            \* every document with a count above a returned one is returned
            /\ \A k \in 1 .. n :
                  Cardinality({d \in DOMAIN docs : docs[d].count > list[k].count})
                    = Cardinality({j \in 1 .. n : list[j].count > list[k].count})

\* C6: a successful getTrendingMovies returns min(5, number of documents)
\* entries in non-increasing order of count, none left out having a greater
\* count than a returned one, each entry the projection of its document,
\* and the collection is not modified.
C6_TopFiveByCount ==
    /\ []TrendingIsTopFive
    /\ [][trending' # trending => docs' = docs]_vars

\* Five entries were returned out of more than five documents, with distinct
\* counts among the returned and a tie at the cut.
C6_Witness ==
    /\ trending.status = "resolved" /\ ~trending.failed
    /\ Len(docs) > 5
    /\ Len(trending.value) = 5
    /\ trending.value[1].count > trending.value[5].count
    /\ Cardinality({d \in DOMAIN docs : docs[d].count = trending.value[5].count})
         > Cardinality({j \in 1 .. 5 : trending.value[j].count = trending.value[5].count})

\* C7: every keystroke resets the pending timer; the debounced term changes
\* only when 1500 ms have passed since the last keystroke, and then it is
\* the value the input holds.
C7_Debounce ==
    [][ /\ searchTerm' # searchTerm =>
              /\ timer' = Some(now + 1500)
              /\ debouncedSearchTerm' = debouncedSearchTerm
        /\ debouncedSearchTerm' # debouncedSearchTerm =>
              /\ now - lastChange >= 1500
              /\ debouncedSearchTerm' = searchTerm
              /\ searchTerm' = searchTerm ]_vars

\* The debounced term became "dun", three keystrokes away from the first
\* value, too early for both intermediate values to have been debounced:
\* a value overwritten within the delay was skipped.
C7_Witness ==
    /\ debouncedSearchTerm = "dun"
    /\ lastChange > 0
    /\ now < 1500 + 1500

\* C8: the rating text is "N/A" when vote_average is 0 or absent, and
\* otherwise the number with one decimal, never "N/A".
C8_RatingText ==
    card # NoCard =>
        IF movie.vote_average = Null \/ movie.vote_average[1] = 0
        THEN card.rating = "N/A" /\ card.rating # "0.0"
        ELSE /\ card.rating # "N/A"
             /\ \E n \in 0 .. ((movie.vote_average[1] \div 10) + 1) :
                   /\ card.rating = TenthsText(n)
                   /\ (10 * n) - movie.vote_average[1] \in -5 .. 5

\* A card was rendered for a movie with vote_average 0.
C8_Witness ==
    /\ card # NoCard
    /\ movie.vote_average = Some(0)
    /\ card.rating = "N/A"

=============================================================================
